---------------------------- MODULE Spec2Model ----------------------------
(***************************************************************************)
(* A model of the arXiv scraper of src/main.py: the keyword matcher, the   *)
(* paper identity key, the date window, the retrying search client, the    *)
(* merge of fetched papers into the keyed corpus, and the persistence of   *)
(* the corpus and of the category summary.                                 *)
(*                                                                         *)
(* src/main.py holds an unresolved merge: three hunks between "<<<<<<<     *)
(* HEAD" and ">>>>>>> 6b6cbdc".  The program that runs is one side or the  *)
(* other; the variable rev says which, and is chosen once in Init.         *)
(*                                                                         *)
(* Strings the code inspects character by character (titles, authors,      *)
(* abstracts, keyword groups) are sequences of one-character strings.  An  *)
(* ISO date string "YYYY-MM-DD" is the triple <<Y, M, D>>; a date object   *)
(* is its proleptic Gregorian ordinal, as in datetime.date.toordinal().    *)
(* A JSON list whose order the code never reads (categories) is a bag: the *)
(* multiplicity of an element is kept, its position is not.                *)
(*                                                                         *)
(* The files are touched by the program alone and a write that starts      *)
(* completes.                                                              *)
(***************************************************************************)
EXTENDS Integers, Sequences, FiniteSets, Bags, TLC

(***************************************************************************)
(* Characters and strings                                                  *)
(***************************************************************************)

\* Characters that are not word characters for the regex assertion \b.
NonWordChars == {" ", ",", "+"}

IsWordChar(c) == c \notin NonWordChars

\* str.lower() on one character.
LowerChar(c) ==
    CASE c = "A" -> "a"
      [] c = "B" -> "b"
      [] c = "S" -> "s"
      [] c = "X" -> "x"
      [] c = "Y" -> "y"
      [] OTHER -> c

\* str.lower()
Lower(s) == [i \in 1..Len(s) |-> LowerChar(s[i])]

RECURSIVE LStrip(_)
LStrip(s) == IF s # << >> /\ Head(s) = " " THEN LStrip(Tail(s)) ELSE s

RECURSIVE RStrip(_)
RStrip(s) ==
    IF s # << >> /\ s[Len(s)] = " " THEN RStrip(SubSeq(s, 1, Len(s) - 1)) ELSE s

\* str.strip()
Strip(s) == RStrip(LStrip(s))

\* str.split(','): the pieces between the commas, empty pieces kept.
RECURSIVE SplitComma(_)
SplitComma(s) ==
    IF \A i \in 1..Len(s) : s[i] # ","
    THEN << s >>
    ELSE LET i == CHOOSE j \in 1..Len(s) :
                      s[j] = "," /\ \A k \in 1..(j - 1) : s[k] # ","
         IN  << SubSeq(s, 1, i - 1) >> \o SplitComma(SubSeq(s, i + 1, Len(s)))

(***************************************************************************)
(* exact_match: the pattern \b + escape(keyword.strip()) + s?\b            *)
(***************************************************************************)

\* \b at offset i of t (between t[i] and t[i+1]): exactly one side is a word
\* character; outside the text counts as a non-word character.
WordBoundary(t, i) ==
    LET before == i >= 1 /\ i <= Len(t) /\ IsWordChar(t[i])
        after  == i + 1 >= 1 /\ i + 1 <= Len(t) /\ IsWordChar(t[i + 1])
    IN  before # after

\* The pattern matches t starting at offset i.  regex.escape makes every
\* character of the keyword a literal; IGNORECASE compares lowered characters.
PatternMatchesAt(kw, t, i) ==
    LET n == Len(kw)
    IN  /\ WordBoundary(t, i)
        /\ i + n <= Len(t)
        /\ \A j \in 1..n : LowerChar(t[i + j]) = LowerChar(kw[j])
        /\ \/ WordBoundary(t, i + n)
           \/ /\ i + n + 1 <= Len(t)
              /\ LowerChar(t[i + n + 1]) = "s"
              /\ WordBoundary(t, i + n + 1)

\* regex.search(pattern, textlower, regex.IGNORECASE) is not None
regex_search(keyword, textlower) ==
    \E i \in 0..Len(textlower) : PatternMatchesAt(Strip(keyword), textlower, i)

\* The inner loop of exact_match over one group: the first synonym, unstripped,
\* when some synonym of the group matches.
GroupMatches(keywords, textlower) ==
    LET split_list == SplitComma(keywords)
    IN  \E k \in 1..Len(split_list) : regex_search(split_list[k], textlower)

RECURSIVE exact_match(_, _)
exact_match(text, keyword_list) ==
    IF keyword_list = << >>
    THEN << >>
    ELSE LET keywords == Head(keyword_list)
             rest     == exact_match(text, Tail(keyword_list))
         IN  IF GroupMatches(keywords, Lower(text))
             THEN << SplitComma(keywords)[1] >> \o rest
             ELSE rest

\* extract_specificities returns the pair (architectures, applications).
extract_specificities(text, architecture_keywords, application_keywords) ==
    << exact_match(text, architecture_keywords),
       exact_match(text, application_keywords) >>

(***************************************************************************)
(* Dates                                                                   *)
(***************************************************************************)

IsLeap(y) == (y % 4 = 0) /\ ((y % 100 # 0) \/ (y % 400 = 0))

DaysInMonth(y, m) ==
    CASE m \in {4, 6, 9, 11} -> 30
      [] m = 2 -> IF IsLeap(y) THEN 29 ELSE 28
      [] OTHER -> 31

RECURSIVE DaysBeforeMonth(_, _)
DaysBeforeMonth(y, m) ==
    IF m <= 1 THEN 0 ELSE DaysBeforeMonth(y, m - 1) + DaysInMonth(y, m - 1)

DaysBeforeYear(y) ==
    LET p == y - 1 IN p * 365 + (p \div 4) - (p \div 100) + (p \div 400)

\* An ISO triple that datetime.date.fromisoformat accepts.
IsValidIso(t) ==
    /\ t[2] \in 1..12
    /\ t[3] \in 1..DaysInMonth(t[1], t[2])

\* datetime.date.fromisoformat(s) as a date object (its ordinal).
fromisoformat(t) == DaysBeforeYear(t[1]) + DaysBeforeMonth(t[1], t[2]) + t[3]

\* Lexicographic order of two ISO strings, the order sorted() uses at line 213.
IsoLess(a, b) ==
    \/ a[1] < b[1]
    \/ a[1] = b[1] /\ a[2] < b[2]
    \/ a[1] = b[1] /\ a[2] = b[2] /\ a[3] < b[3]

(***************************************************************************)
(* Papers and the keyed corpus                                             *)
(***************************************************************************)

\* get_paper_key without strip() and lower().
get_paper_key_raw(paper) ==
    << paper.title,
       IF paper.authors # << >> THEN paper.authors[1] ELSE << >> >>

\* get_paper_key: (title.strip().lower(), first author stripped and lowered,
\* or "" when there is no author).
get_paper_key(paper) ==
    LET title == Lower(Strip(paper.title))
        first_author == IF paper.authors # << >>
                        THEN Lower(Strip(paper.authors[1]))
                        ELSE << >>
    IN  << title, first_author >>

\* The dict seen, in insertion order: a sequence of [k, v] items.
DictHas(d, k) == \E i \in 1..Len(d) : d[i].k = k

DictIndex(d, k) == CHOOSE i \in 1..Len(d) : d[i].k = k

DictGet(d, k) == d[DictIndex(d, k)].v

\* d[k] = v: a present key keeps its position, a new key goes last.
DictSet(d, k, v) ==
    IF DictHas(d, k)
    THEN [d EXCEPT ![DictIndex(d, k)] = [k |-> k, v |-> v]]
    ELSE Append(d, [k |-> k, v |-> v])

\* The elements of a sequence.
Range(q) == { q[i] : i \in 1..Len(q) }

\* list(d.values())
DictValues(d) == [i \in 1..Len(d) |-> d[i].v]

\* The new categories replace the old ones.
NewCategoriesOnly(a, b) == SetToBag(BagToSet(b))

\* set(a) ^ set(b) in place of set(a) | set(b).
SymmetricDifferenceList(a, b) ==
    SetToBag((BagToSet(a) \ BagToSet(b)) \cup (BagToSet(b) \ BagToSet(a)))

\* list(set(a) | set(b)): every element once.
SetUnionList(a, b) == SetToBag(BagToSet(a) \cup BagToSet(b))

\* The merge with the fetched paper replacing the existing entry, its
\* categories united: last write wins.
MergePaperLastWriteWins(d, fetched, category_name) ==
    LET paper == [fetched EXCEPT
                     !.categories = @ (+) SetToBag({category_name})]
        key == get_paper_key(paper)
    IN  IF ~DictHas(d, key)
        THEN DictSet(d, key, paper)
        ELSE DictSet(d, key,
                 [paper EXCEPT
                     !.categories =
                         SetToBag(BagToSet(DictGet(d, key).categories)
                                      \cup BagToSet(paper.categories))])

\* The body of the merge loop for one fetched paper (lines 240-246): the
\* category is appended to the paper's own list, then the paper is inserted
\* under a new key, or its categories are united into the existing entry.
MergePaper(d, fetched, category_name) ==
    LET paper == [fetched EXCEPT
                     !.categories = @ (+) SetToBag({category_name})]
        key == get_paper_key(paper)
    IN  IF ~DictHas(d, key)
        THEN DictSet(d, key, paper)
        ELSE LET existing == DictGet(d, key)
                 cats == SetUnionList(existing.categories, paper.categories)
             IN  DictSet(d, key, [existing EXCEPT !.categories = cats])

\* The loop of lines 239-246 over a list of fetched papers.
RECURSIVE MergePapers(_, _, _)
MergePapers(d, papers, category_name) ==
    IF papers = << >>
    THEN d
    ELSE MergePapers(MergePaper(d, Head(papers), category_name),
                     Tail(papers), category_name)

\* sorted(values, key=published, reverse=True): stable, latest first.
RECURSIVE InsertDesc(_, _)
InsertDesc(sorted, p) ==
    IF sorted = << >>
    THEN << p >>
    ELSE IF IsoLess(Head(sorted).published, p.published)
         THEN << p >> \o sorted
         ELSE << Head(sorted) >> \o InsertDesc(Tail(sorted), p)

RECURSIVE SortedByPublishedDesc(_)
SortedByPublishedDesc(values) ==
    IF values = << >>
    THEN << >>
    ELSE InsertDesc(SortedByPublishedDesc(SubSeq(values, 1, Len(values) - 1)),
                    values[Len(values)])

\* count_categories: a Counter, one increment per element of every paper's
\* categories list.  A category no paper carries has no entry (read as 0).
RECURSIVE count_categories(_)
count_categories(papers) ==
    IF papers = << >>
    THEN EmptyBag
    ELSE papers[1].categories (+) count_categories(Tail(papers))

(***************************************************************************)
(* Bounds, program constants, configuration and the external index         *)
(***************************************************************************)

\* Runs of main() in one behaviour.
MaxRuns == 2

\* config["max_results"]: the results one attempt of one query delivers.
max_results == 1

\* Length of the text handed to exact_match in SpecMatch.
MaxTextLen == 3

\* search_arxiv's max_retries parameter.
max_retries == 3

\* The window of is_recent, in days.
RecentDays == 7

\* config["categories"]: the category names in the file's order, and the
\* keyword groups (queries) of each.
Categories == << "cv", "nlp" >>

Queries(category_name) ==
    IF category_name = "cv"
    THEN << << "k1" >>, << "k2", "k3" >> >>
    ELSE << << "k4" >> >>

\* config["start_date"], and the default of config.get("start_date", ...).
ConfigStartDate == << 2024, 1, 1 >>

\* keywords.yaml: comma-joined synonym groups, "ab,c" and "x".
ArchitectureKeywords == << << "a", "b", ",", "c" >> >>

ApplicationKeywords == << << "x" >> >>

\* What the index can return: title, entry id, author names, publication date
\* and summary.  The first two share an identity key and differ in every other
\* field; the third has no author.
IndexResults ==
    { [title |-> << "A" >>, entry_id |-> "u1", authors |-> << << "X" >> >>,
       published |-> << 2024, 3, 10 >>, summary |-> << "A", "b", "s" >>],
      [title |-> << " ", "a" >>, entry_id |-> "u2",
       authors |-> << << "x", " " >>, << "Y" >> >>,
       published |-> << 2024, 2, 29 >>, summary |-> << "a", "b", "c" >>],
      [title |-> << "B" >>, entry_id |-> "u3", authors |-> << >>,
       published |-> << 2024, 3, 1 >>, summary |-> << "x", " ", "c" >>] }

\* datetime.date.today() at the start of a run.
Todays == { fromisoformat(<< 2024, 3, 12 >>), fromisoformat(<< 2024, 3, 20 >>) }

\* --start-date: absent, "-2d", "2024-03-05", or "2024-02-30" (no such day).
\* kind "rel" is a string that starts with "-" and ends with "d", digits being
\* what lies between; kind "iso" is any other non-empty string.
NoArg == [kind |-> "none", digits |-> << >>, iso |-> << 0, 0, 0 >>]

CliArgs ==
    { NoArg,
      [kind |-> "rel", digits |-> << "2" >>, iso |-> << 0, 0, 0 >>],
      [kind |-> "iso", digits |-> << >>, iso |-> << 2024, 3, 5 >>],
      [kind |-> "iso", digits |-> << >>, iso |-> << 2024, 2, 30 >>] }

DigitValue(c) ==
    CASE c = "0" -> 0 [] c = "1" -> 1 [] c = "2" -> 2 [] c = "3" -> 3
      [] c = "4" -> 4 [] c = "5" -> 5 [] c = "6" -> 6 [] c = "7" -> 7
      [] c = "8" -> 8 [] c = "9" -> 9

RECURSIVE ParseInt(_)
ParseInt(digits) ==
    IF digits = << >>
    THEN 0
    ELSE 10 * ParseInt(SubSeq(digits, 1, Len(digits) - 1))
             + DigitValue(digits[Len(digits)])

\* The sequences of at most n elements of S.
RECURSIVE SeqsUpTo(_, _)
SeqsUpTo(S, n) ==
    IF n = 0
    THEN { << >> }
    ELSE LET shorter == SeqsUpTo(S, n - 1)
         IN  shorter \cup { Append(q, x) : q \in shorter, x \in S }

\* What client.results(search) yields in one attempt before it ends or raises.
Batches == SeqsUpTo(IndexResults, max_results)

(***************************************************************************)
(* State                                                                   *)
(***************************************************************************)

VARIABLES
    rev,                \* the side of the merge that runs: "HEAD" or "6b6cbdc"
    runs,               \* runs of main() started so far
    today,              \* datetime.date.today()
    args,               \* args.start_date once line 180 has parsed the command
                        \* line (HEAD); NoArg while unbound
    pc,                 \* where main() stands; "exit" between runs
    raised,             \* the exception that ended the last run, "" if none
    corpusFile,         \* output/papers_with_specificities.json
    summaryFile,        \* output/category_counts.json
    reads,              \* history: reads of the corpus file in this run
    writes,             \* history: writes of the corpus file in this run
    existing_papers,
    nb_existing_papers, \* -1 while the name is unbound
    start_date,         \* 0 while the name is unbound
    seen,
    ci,                 \* position of the category loop (line 236)
    qi,                 \* position of the query loop of search_arxiv (line 107)
    attempt,
    tries,              \* history: attempts started for the current query
    sleeps,             \* history: time.sleep calls for the current query
    all_results,
    cat_papers,
    returned,           \* history: <<key, category>> of every paper that
                        \* search_arxiv returned in this run
    unique_papers,
    category_summary,   \* NoSummary while unbound
    text,               \* SpecMatch: the text handed to exact_match
    keyword_list,       \* SpecMatch: the keyword groups handed to exact_match
    matches             \* SpecMatch: what exact_match returned

vars ==
    << rev, runs, today, args, pc, raised, corpusFile, summaryFile, reads,
       writes, existing_papers, nb_existing_papers, start_date, seen, ci, qi,
       attempt, tries, sleeps, all_results, cat_papers, returned,
       unique_papers, category_summary, text, keyword_list, matches >>

fileVars == << corpusFile, summaryFile >>

histVars == << reads, writes, returned >>

matchVars == << text, keyword_list, matches >>

searchVars == << qi, attempt, tries, sleeps, all_results >>

\* The summary record while unbound, and the content of a summary file not
\* yet written.
NoSummary ==
    [scrape_date |-> 0, new_papers |-> 0, category_counts |-> EmptyBag]

\* The locals of main() and of search_arxiv before they are bound, and after
\* the process has ended.
LocalsUnbound ==
    /\ existing_papers = << >>
    /\ nb_existing_papers = -1
    /\ start_date = 0
    /\ seen = << >>
    /\ ci = 0
    /\ qi = 0
    /\ attempt = 0
    /\ tries = 0
    /\ sleeps = 0
    /\ all_results = << >>
    /\ cat_papers = << >>
    /\ unique_papers = << >>
    /\ category_summary = NoSummary

Init ==
    /\ rev \in { "HEAD", "6b6cbdc" }
    /\ runs = 0
    /\ today = fromisoformat(<< 2024, 3, 12 >>)
    /\ args = NoArg
    /\ pc = "exit"
    /\ raised = ""
    /\ corpusFile = [exists |-> FALSE, papers |-> << >>]
    /\ summaryFile = [exists |-> FALSE, content |-> NoSummary]
    /\ reads = 0
    /\ writes = 0
    /\ returned = { }
    /\ LocalsUnbound
    /\ text = << >>
    /\ keyword_list = << >>
    /\ matches = << >>

\* The process ends with exception e ("" for a normal return); its locals go.
Exit(e) ==
    /\ pc' = "exit"
    /\ raised' = e
    /\ args' = NoArg
    /\ existing_papers' = << >>
    /\ nb_existing_papers' = -1
    /\ start_date' = 0
    /\ seen' = << >>
    /\ ci' = 0
    /\ qi' = 0
    /\ attempt' = 0
    /\ tries' = 0
    /\ sleeps' = 0
    /\ all_results' = << >>
    /\ cat_papers' = << >>
    /\ unique_papers' = << >>
    /\ category_summary' = NoSummary

(***************************************************************************)
(* main(): configuration, corpus load, date window                         *)
(***************************************************************************)

\* A run starts and lines 158-161 load the configuration and the keywords.
StartRun ==
    /\ pc = "exit"
    /\ runs < MaxRuns
    /\ runs' = runs + 1
    /\ today' \in { d \in Todays : d >= today }
    /\ pc' = "load_corpus"
    /\ raised' = ""
    /\ reads' = 0
    /\ writes' = 0
    /\ returned' = { }
    /\ UNCHANGED << rev, args, fileVars, matchVars, existing_papers,
                    nb_existing_papers, start_date, seen, ci, searchVars,
                    cat_papers, unique_papers, category_summary >>

\* A run starts and load_config or load_keywords_from_yaml raises, or
\* config["categories"] is missing (lines 158-161).
StartRunConfigError ==
    /\ pc = "exit"
    /\ runs < MaxRuns
    /\ runs' = runs + 1
    /\ today' \in { d \in Todays : d >= today }
    /\ reads' = 0
    /\ writes' = 0
    /\ returned' = { }
    /\ Exit("ConfigError")
    /\ UNCHANGED << rev, fileVars, matchVars >>

\* Lines 164-176: the corpus file, when it exists, is opened and read.
LoadCorpus ==
    /\ pc = "load_corpus"
    /\ existing_papers' =
           IF corpusFile.exists THEN corpusFile.papers ELSE << >>
    /\ reads' = IF corpusFile.exists THEN reads + 1 ELSE reads
    /\ nb_existing_papers' =
           IF rev = "HEAD" THEN Len(existing_papers') ELSE -1
    /\ pc' = "resolve"
    /\ UNCHANGED << rev, runs, today, args, raised, fileVars, writes,
                    start_date, seen, ci, searchVars, cat_papers, returned,
                    unique_papers, category_summary, matchVars >>

\* max(datetime.date.fromisoformat(p["published"]) for p in papers)
LatestPublished(papers) ==
    LET dates == { fromisoformat(papers[i].published) : i \in 1..Len(papers) }
    IN  CHOOSE d \in dates : \A e \in dates : e <= d

\* Whether lines 182-187 raise ValueError on the argument.
ArgumentIsMalformed(a) ==
    \/ a.kind = "rel" /\ a.digits = << >>
    \/ a.kind = "iso" /\ ~IsValidIso(a.iso)

\* Lines 182-192 (HEAD): the override, else the latest published date of the
\* loaded corpus less one day, else the configured start date.
ResolvedStartDate(a, papers, now) ==
    CASE a.kind = "rel" -> now - ParseInt(a.digits)
      [] a.kind = "iso" -> fromisoformat(a.iso)
      [] a.kind = "none" /\ papers # << >> -> LatestPublished(papers) - 1
      [] OTHER -> fromisoformat(ConfigStartDate)

ResolveWindow ==
    /\ pc = "resolve"
    /\ rev = "HEAD"
    /\ \E a \in CliArgs :
           /\ ~ArgumentIsMalformed(a)
           /\ args' = a
           /\ start_date' = ResolvedStartDate(a, existing_papers, today)
    /\ pc' = "build_seen"
    /\ UNCHANGED << rev, runs, today, raised, fileVars, reads, writes,
                    existing_papers, nb_existing_papers, seen, ci, searchVars,
                    cat_papers, returned, unique_papers, category_summary,
                    matchVars >>

\* Lines 184 and 187 (HEAD): int() or fromisoformat raises ValueError.
ArgumentError ==
    /\ pc = "resolve"
    /\ rev = "HEAD"
    /\ \E a \in CliArgs : ArgumentIsMalformed(a)
    /\ Exit("ValueError")
    /\ UNCHANGED << rev, runs, today, fileVars, reads, writes, returned,
                    matchVars >>

\* get_start_date (lines 81-99): the default when the file is missing or
\* holds no paper, else the latest published date plus one day.
get_start_date(file, default_start_date) ==
    IF ~file.exists
    THEN fromisoformat(default_start_date)
    ELSE IF file.papers = << >>
         THEN fromisoformat(default_start_date)
         ELSE LatestPublished(file.papers) + 1

\* Line 196 (6b6cbdc): get_start_date opens the corpus file again.
ResolveWindowFromFile ==
    /\ pc = "resolve"
    /\ rev = "6b6cbdc"
    /\ start_date' = get_start_date(corpusFile, ConfigStartDate)
    /\ reads' = IF corpusFile.exists THEN reads + 1 ELSE reads
    /\ pc' = "build_seen"
    /\ UNCHANGED << rev, runs, today, args, raised, fileVars, writes,
                    existing_papers, nb_existing_papers, seen, ci, searchVars,
                    cat_papers, returned, unique_papers, category_summary,
                    matchVars >>

\* Lines 204-210: every loaded paper gets is_recent and goes into seen.
RECURSIVE SeenOf(_, _)
SeenOf(papers, seven_days_ago) ==
    IF papers = << >>
    THEN << >>
    ELSE LET p == papers[Len(papers)]
             pub_date == fromisoformat(p.published)
             q == [p EXCEPT !.is_recent =
                      IF pub_date >= seven_days_ago THEN "true" ELSE "false"]
         IN  DictSet(SeenOf(SubSeq(papers, 1, Len(papers) - 1), seven_days_ago),
                     get_paper_key(q), q)

\* Lines 200-214: seen is built, and existing_papers is rebound to the values
\* of seen sorted by published date, latest first.  The category loop starts.
BuildSeen ==
    /\ pc = "build_seen"
    /\ seen' = SeenOf(existing_papers, today - RecentDays)
    /\ existing_papers' = SortedByPublishedDesc(DictValues(seen'))
    /\ ci' = 1
    /\ qi' = 1
    /\ attempt' = 0
    /\ tries' = 0
    /\ sleeps' = 0
    /\ all_results' = << >>
    /\ pc' = "try"
    /\ UNCHANGED << rev, runs, today, args, raised, fileVars, reads, writes,
                    nb_existing_papers, start_date, cat_papers, returned,
                    unique_papers, category_summary, matchVars >>

(***************************************************************************)
(* search_arxiv                                                            *)
(***************************************************************************)

\* Lines 122-131: the paper built from one result.  strftime("%Y-%m-%d")
\* writes the result's date as its ISO string; is_recent is not yet a key.
PaperOf(result) ==
    [title |-> result.title,
     url |-> result.entry_id,
     authors |-> result.authors,
     published |-> result.published,
     abstract |-> result.summary,
     categories |-> EmptyBag,
     architectures |-> << >>,
     applications |-> << >>,
     is_recent |-> "absent"]

\* Lines 120-132: the papers of the results published on or after start_date.
RECURSIVE Collected(_, _)
Collected(batch, from) ==
    IF batch = << >>
    THEN << >>
    ELSE IF fromisoformat(Head(batch).published) >= from
         THEN << PaperOf(Head(batch)) >> \o Collected(Tail(batch), from)
         ELSE Collected(Tail(batch), from)

\* while attempt <= max_retries
RetryAllowedInclusive(n) == n <= max_retries

\* Line 118: while attempt < max_retries
RetryAllowed(n) == n < max_retries

\* Line 138: if attempt < max_retries, sleep before the next attempt
SleepBeforeRetry(n) == n < max_retries

\* The keys and category of the papers a call of search_arxiv returned.
ReturnedOf(papers, category_name) ==
    { << get_paper_key(papers[i]), category_name >> : i \in 1..Len(papers) }

\* The for loop of line 107 moves to the next query, or search_arxiv returns
\* all_results (line 143) and main binds cat_papers (line 238).
AdvanceQuery(results) ==
    IF qi < Len(Queries(Categories[ci]))
    THEN /\ qi' = qi + 1
         /\ attempt' = 0
         /\ tries' = 0
         /\ sleeps' = 0
         /\ all_results' = results
         /\ pc' = "try"
         /\ UNCHANGED << cat_papers, returned >>
    ELSE /\ qi' = 0
         /\ attempt' = 0
         /\ tries' = 0
         /\ sleeps' = 0
         /\ all_results' = << >>
         /\ cat_papers' = results
         /\ returned' = returned \cup ReturnedOf(results, Categories[ci])
         /\ pc' = "merge"

\* Lines 119-133: an attempt delivers its results and ends; break.
TryOk ==
    /\ pc = "try"
    /\ RetryAllowed(attempt)
    /\ \E batch \in Batches :
           AdvanceQuery(all_results \o Collected(batch, start_date))
    /\ UNCHANGED << rev, runs, today, args, raised, fileVars, reads, writes,
                    existing_papers, nb_existing_papers, start_date, seen, ci,
                    unique_papers, category_summary, matchVars >>

\* Lines 119-142: an attempt raises after delivering some results; the
\* failure is counted, and a backoff follows unless it was the last attempt.
TryFail ==
    /\ pc = "try"
    /\ RetryAllowed(attempt)
    /\ \E batch \in Batches :
           all_results' = all_results \o Collected(batch, start_date)
    /\ attempt' = attempt + 1
    /\ tries' = tries + 1
    /\ pc' = IF SleepBeforeRetry(attempt') THEN "backoff" ELSE "try"
    /\ UNCHANGED << rev, runs, today, args, raised, fileVars, reads, writes,
                    existing_papers, nb_existing_papers, start_date, seen, ci,
                    qi, sleeps, cat_papers, returned, unique_papers,
                    category_summary, matchVars >>

\* Line 140: time.sleep(wait_time), then the loop of line 118 again.
Backoff ==
    /\ pc = "backoff"
    /\ sleeps' = sleeps + 1
    /\ pc' = "try"
    /\ UNCHANGED << rev, runs, today, args, raised, fileVars, reads, writes,
                    existing_papers, nb_existing_papers, start_date, seen, ci,
                    qi, attempt, tries, all_results, cat_papers, returned,
                    unique_papers, category_summary, matchVars >>

\* Line 118 is false after the last failure: the query is given up.
QueryAbandoned ==
    /\ pc = "try"
    /\ ~RetryAllowed(attempt)
    /\ AdvanceQuery(all_results)
    /\ UNCHANGED << rev, runs, today, args, raised, fileVars, reads, writes,
                    existing_papers, nb_existing_papers, start_date, seen, ci,
                    unique_papers, category_summary, matchVars >>

(***************************************************************************)
(* main(): merge, tagging, persistence                                     *)
(***************************************************************************)

\* Lines 239-246 over cat_papers, then line 236: the next category, or the
\* end of the category loop.
MergeCategory ==
    /\ pc = "merge"
    /\ seen' = MergePapers(seen, cat_papers, Categories[ci])
    /\ cat_papers' = << >>
    /\ IF ci < Len(Categories)
       THEN /\ ci' = ci + 1
            /\ qi' = 1
            /\ pc' = "try"
       ELSE /\ ci' = 0
            /\ qi' = 0
            /\ pc' = "tag"
    /\ UNCHANGED << rev, runs, today, args, raised, fileVars, reads, writes,
                    existing_papers, nb_existing_papers, start_date, attempt,
                    tries, sleeps, all_results, returned, unique_papers,
                    category_summary, matchVars >>

\* Lines 250-257 for one paper.
Tagged(paper) ==
    LET sp == extract_specificities(paper.abstract, ArchitectureKeywords,
                                    ApplicationKeywords)
    IN  [paper EXCEPT !.architectures = sp[1], !.applications = sp[2]]

\* Lines 249-257: unique_papers = list(seen.values()), every paper tagged.
UniquePapers(d) == [i \in 1..Len(d) |-> Tagged(d[i].v)]

Tag ==
    /\ pc = "tag"
    /\ unique_papers' = UniquePapers(seen)
    /\ pc' = "save"
    /\ UNCHANGED << rev, runs, today, args, raised, fileVars, reads, writes,
                    existing_papers, nb_existing_papers, start_date, seen, ci,
                    searchVars, cat_papers, returned, category_summary,
                    matchVars >>

\* Lines 260-262: the corpus file is overwritten with unique_papers.
SaveCorpus ==
    /\ pc = "save"
    /\ corpusFile' = [exists |-> TRUE, papers |-> unique_papers]
    /\ writes' = writes + 1
    /\ pc' = "summary"
    /\ UNCHANGED << rev, runs, today, args, raised, summaryFile, reads,
                    existing_papers, nb_existing_papers, start_date, seen, ci,
                    searchVars, cat_papers, returned, unique_papers,
                    category_summary, matchVars >>

\* Lines 265-272 (HEAD): the summary record main() builds.
CategorySummary(papers, nb_existing, now) ==
    [scrape_date |-> now,
     new_papers |-> Len(papers) - nb_existing,
     category_counts |-> count_categories(papers)]

\* Lines 265-272 (HEAD): the delta, the counts and the summary record.
BuildSummary ==
    /\ pc = "summary"
    /\ rev = "HEAD"
    /\ category_summary' =
           CategorySummary(unique_papers, nb_existing_papers, today)
    /\ pc' = "write_summary"
    /\ UNCHANGED << rev, runs, today, args, raised, fileVars, histVars,
                    existing_papers, nb_existing_papers, start_date, seen, ci,
                    searchVars, cat_papers, unique_papers, matchVars >>

\* Line 273 (HEAD) names output_dir, which is bound nowhere (the module binds
\* OUTPUT_DIR): NameError, before the summary file is opened.
SummaryNameError ==
    /\ pc = "write_summary"
    /\ rev = "HEAD"
    /\ Exit("NameError")
    /\ UNCHANGED << rev, runs, today, fileVars, histVars, matchVars >>

\* Line 265 (6b6cbdc): nb_existing_papers is bound only by HEAD's line 176:
\* NameError, before the counts are computed or the summary file is opened.
DeltaNameError ==
    /\ pc = "summary"
    /\ rev = "6b6cbdc"
    /\ nb_existing_papers = -1
    /\ Exit("NameError")
    /\ UNCHANGED << rev, runs, today, fileVars, reads, writes, returned,
                    matchVars >>

\* An exception main() does not catch, raised before the corpus is saved: a
\* loaded paper without "published" (lines 189, 206), a category without
\* "queries" (line 238, before search_arxiv is called), keywords.yaml without
\* a taxonomy (lines 253-254).
Raise ==
    /\ \/ pc \in { "resolve", "build_seen", "tag" }
       \/ pc = "try" /\ qi = 1 /\ attempt = 0 /\ all_results = << >>
    /\ Exit("KeyError")
    /\ UNCHANGED << rev, runs, today, fileVars, reads, writes, returned,
                    matchVars >>

Next ==
    \/ StartRun
    \/ StartRunConfigError
    \/ LoadCorpus
    \/ ResolveWindow
    \/ ArgumentError
    \/ ResolveWindowFromFile
    \/ BuildSeen
    \/ TryOk
    \/ TryFail
    \/ Backoff
    \/ QueryAbandoned
    \/ MergeCategory
    \/ Tag
    \/ SaveCorpus
    \/ BuildSummary
    \/ SummaryNameError
    \/ DeltaNameError
    \/ Raise

Spec == Init /\ [][Next]_vars

(***************************************************************************)
(* exact_match on its own: a text and a keyword list are drawn, and the    *)
(* function is applied.                                                     *)
(***************************************************************************)

\* The characters of the texts: letters in both cases, the plural "s", a
\* blank and a character that is not a word character.
TextChars == { "a", "b", "s", "A", " ", "+" }

\* Keyword lists as keywords.yaml may hold them: "a, b" and "B"; the same
\* two in the other order; "as"; and "a+".
KeywordLists ==
    { << << "a", ",", " ", "b" >>, << "B" >> >>,
      << << "B" >>, << "a", ",", " ", "b" >> >>,
      << << "a", "s" >> >>,
      << << "a", "+" >> >> }

InitMatch ==
    /\ rev = "HEAD"
    /\ runs = 0
    /\ today = fromisoformat(<< 2024, 3, 12 >>)
    /\ args = NoArg
    /\ pc = "match"
    /\ raised = ""
    /\ corpusFile = [exists |-> FALSE, papers |-> << >>]
    /\ summaryFile = [exists |-> FALSE, content |-> NoSummary]
    /\ reads = 0
    /\ writes = 0
    /\ returned = { }
    /\ LocalsUnbound
    /\ text \in SeqsUpTo(TextChars, MaxTextLen)
    /\ keyword_list \in KeywordLists
    /\ matches = << >>

\* matches = exact_match(text, keyword_list), lines 54-65.
Match ==
    /\ pc = "match"
    /\ matches' = exact_match(text, keyword_list)
    /\ pc' = "matched"
    /\ UNCHANGED << rev, runs, today, args, raised, fileVars, histVars,
                    existing_papers, nb_existing_papers, start_date, seen, ci,
                    searchVars, cat_papers, unique_papers, category_summary,
                    text, keyword_list >>

NextMatch == Match

SpecMatch == InitMatch /\ [][NextMatch]_vars

(***************************************************************************)
(* Properties                                                              *)
(***************************************************************************)

\* The identity key as the data model states it: the title trimmed and
\* lowercased, and the first author trimmed and lowercased, or the empty
\* string when the author list is empty.
IdentityKey(p) ==
    << Lower(Strip(p.title)),
       IF p.authors = << >> THEN << >> ELSE Lower(Strip(p.authors[1])) >>

KeysOf(papers) == { IdentityKey(papers[i]) : i \in 1..Len(papers) }

\* The category set a list of papers holds for identity key k.
CategoriesOf(papers, k) ==
    UNION { BagToSet(papers[i].categories) :
                i \in { j \in 1..Len(papers) : IdentityKey(papers[j]) = k } }

\* C1: the corpus file never holds two entries with the same identity key,
\* whatever the queries returned in this run and in the runs before.
C1_NoDuplicateKeys ==
    corpusFile.exists =>
        \A i, j \in 1..Len(corpusFile.papers) :
            i # j => IdentityKey(corpusFile.papers[i])
                         # IdentityKey(corpusFile.papers[j])

\* C1 witness: a second run has saved a corpus in which a paper carries both
\* categories and was returned again by a query of this run; the index holds
\* two results with that identity key.
C1_Witness ==
    /\ runs = 2
    /\ writes = 1
    /\ pc = "exit"
    /\ Len(corpusFile.papers) = 2
    /\ \E i \in 1..Len(corpusFile.papers) :
           /\ BagToSet(corpusFile.papers[i].categories) = { "cv", "nlp" }
           /\ << IdentityKey(corpusFile.papers[i]), "cv" >> \in returned

\* C2: the step that saves the corpus writes, for every paper, the union of
\* the categories the corpus file held for its key before the run and the
\* categories whose search_arxiv call returned a paper with that key in the
\* run; every key the file held is still there, so no key ever loses a
\* category.
C2_CategoriesAreUnion ==
    [][ (pc = "save" /\ pc' = "summary") =>
            /\ \A i \in 1..Len(corpusFile'.papers) :
                   LET p == corpusFile'.papers[i]
                       k == IdentityKey(p)
                   IN  BagToSet(p.categories) =
                           CategoriesOf(corpusFile.papers, k)
                               \cup { c \in Range(Categories) :
                                          << k, c >> \in returned }
            /\ KeysOf(corpusFile.papers) \subseteq KeysOf(corpusFile'.papers)
      ]_vars

\* C2 witness: a second run has just saved a paper whose category "cv" comes
\* from the earlier run alone and whose category "nlp" comes from this run.
C2_Witness ==
    /\ runs = 2
    /\ pc = "summary"
    /\ \E i \in 1..Len(corpusFile.papers) :
           LET k == IdentityKey(corpusFile.papers[i])
           IN  /\ BagToSet(corpusFile.papers[i].categories) = { "cv", "nlp" }
               /\ << k, "nlp" >> \in returned
               /\ << k, "cv" >> \notin returned

\* C3: once the window is resolved, the start date is the override when one
\* is given, else the latest published date of the loaded corpus less one
\* day, else the configured start date.
C3_StartDateResolution ==
    pc = "build_seen" =>
        start_date =
            CASE args.kind = "iso" -> fromisoformat(args.iso)
              [] args.kind = "rel" -> today - ParseInt(args.digits)
              [] args.kind = "none" /\ existing_papers # << >> ->
                     LatestPublished(existing_papers) - 1
              [] OTHER -> fromisoformat(ConfigStartDate)

\* Two keyed corpora hold the same keys and, for every key, the same category
\* set and the same values of every other field.
SameCorpus(d, e) ==
    /\ { d[i].k : i \in 1..Len(d) } = { e[i].k : i \in 1..Len(e) }
    /\ \A i \in 1..Len(d) : \A j \in 1..Len(e) :
           d[i].k = e[j].k =>
               /\ BagToSet(d[i].v.categories) = BagToSet(e[j].v.categories)
               /\ [d[i].v EXCEPT !.categories = EmptyBag]
                      = [e[j].v EXCEPT !.categories = EmptyBag]

\* C4: where main() is about to merge the papers fetched for a category,
\* merging them twice gives the same keyed corpus as merging them once.
C4_MergeIdempotent ==
    pc = "merge" =>
        LET once == MergePapers(seen, cat_papers, Categories[ci])
        IN  SameCorpus(MergePapers(once, cat_papers, Categories[ci]), once)

\* C4 witness: a merge of two fetched papers into a corpus that holds the key
\* of one of them and not the key of the other.
C4_Witness ==
    /\ pc = "merge"
    /\ Len(cat_papers) >= 2
    /\ \E i, j \in 1..Len(cat_papers) :
           /\ DictHas(seen, IdentityKey(cat_papers[i]))
           /\ ~DictHas(seen, IdentityKey(cat_papers[j]))

\* The keyed corpus when the merge loop reaches cat_papers[i].
SeenBefore(i) == MergePapers(seen, SubSeq(cat_papers, 1, i - 1), Categories[ci])

\* C5: when the merge loop reaches a fetched paper whose key the corpus
\* holds, the merge keeps every entry in place, leaves every other entry as
\* it is, and changes nothing but the categories of the entry with that key.
C5_MergeChangesOnlyCategories ==
    pc = "merge" =>
        \A i \in 1..Len(cat_papers) :
            LET d == SeenBefore(i)
                k == IdentityKey(cat_papers[i])
                e == MergePaper(d, cat_papers[i], Categories[ci])
            IN  (\E n \in 1..Len(d) : d[n].k = k) =>
                    /\ Len(e) = Len(d)
                    /\ \A n \in 1..Len(d) :
                           /\ e[n].k = d[n].k
                           /\ d[n].k # k => e[n] = d[n]
                           /\ d[n].k = k =>
                                  [e[n].v EXCEPT !.categories =
                                                     d[n].v.categories]
                                      = d[n].v

\* C5 witness: the merge loop reaches a fetched paper whose key the corpus
\* holds with another url, published date and abstract, beside another entry.
C5_Witness ==
    /\ pc = "merge"
    /\ \E i \in 1..Len(cat_papers) :
           LET d == SeenBefore(i)
               k == IdentityKey(cat_papers[i])
           IN  /\ Len(d) = 2
               /\ \E n \in 1..Len(d) :
                      /\ d[n].k = k
                      /\ d[n].v.url # cat_papers[i].url
                      /\ d[n].v.published # cat_papers[i].published
                      /\ d[n].v.abstract # cat_papers[i].abstract
                      /\ Categories[ci] \notin BagToSet(d[n].v.categories)

\* C6: no query is attempted more than max_retries times; a backoff wait is
\* always followed by another attempt of the same query; and the step that
\* gives a query up raises nothing, keeps the papers collected so far, and
\* goes on to the next query of the list, or returns them to main() for the
\* merge when the list is exhausted.
C6_BoundedRetriesNoException ==
    [][ /\ tries' <= max_retries
        /\ sleeps' < max_retries
        /\ pc' = "backoff" => attempt' < max_retries
        /\ pc = "backoff" => (pc' = "try" /\ qi' = qi)
        /\ (pc = "try" /\ attempt >= max_retries) =>
               /\ tries = max_retries
               /\ raised' = ""
               /\ \/ /\ pc' = "try"
                     /\ qi' = qi + 1
                     /\ all_results' = all_results
                  \/ /\ pc' = "merge"
                     /\ qi = Len(Queries(Categories[ci]))
                     /\ cat_papers' = all_results
      ]_vars

\* C6 witness: the first query of a category has failed three times, with two
\* backoff waits between the attempts and a paper collected on the way, and
\* the second query of the list is still to run.
C6_Witness ==
    /\ pc = "try"
    /\ attempt = max_retries
    /\ tries = max_retries
    /\ sleeps = max_retries - 1
    /\ qi = 1
    /\ qi < Len(Queries(Categories[ci]))
    /\ all_results # << >>

\* C7: the corpus file is in descending order of published date.
C7_CorpusSortedByDateDescending ==
    corpusFile.exists =>
        \A i, j \in 1..Len(corpusFile.papers) :
            i < j => ~IsoLess(corpusFile.papers[i].published,
                              corpusFile.papers[j].published)

\* C8: a run that has saved the corpus and ended has written a summary that
\* agrees with it: for every category the count is the number of saved
\* papers that carry it, and new_papers is the size of the saved corpus less
\* the size of the corpus the run loaded.
C8_SummaryAgreesWithCorpus ==
    [][ (pc \in { "summary", "write_summary" } /\ pc' = "exit") =>
            /\ summaryFile'.exists
            /\ \A c \in Range(Categories) :
                   CopiesIn(c, summaryFile'.content.category_counts) =
                       Cardinality({ i \in 1..Len(corpusFile.papers) :
                           c \in BagToSet(corpusFile.papers[i].categories) })
            /\ summaryFile'.content.new_papers =
                   Len(corpusFile.papers) - Len(existing_papers)
      ]_vars

\* C9: the output files change only in the step that saves the corpus, which
\* comes after loading, window resolution, fetching, merging and tagging; and
\* in a run the corpus file is opened for reading at most once and for
\* writing at most once.
C9_OutputsWrittenLastReadOnce ==
    [][ /\ corpusFile' # corpusFile =>
               (pc = "save" /\ unique_papers = UniquePapers(seen))
        /\ summaryFile' # summaryFile => pc = "write_summary"
        /\ (pc' = "exit"
               /\ raised' \in { "ConfigError", "ValueError", "KeyError" }) =>
               (fileVars' = fileVars /\ writes' = 0)
        /\ reads' <= 1
        /\ writes' <= 1
      ]_vars

\* A synonym occurs in the text as a whole word, with or without one trailing
\* "s": compared without case, and with no word character right before it or
\* right after it.
OccursAsWholeWord(synonym, t) ==
    /\ synonym # << >>
    /\ \E i \in 0..Len(t) : \E plural \in { 0, 1 } :
           LET n == Len(synonym)
               last == i + n + plural
           IN  /\ last <= Len(t)
               /\ \A j \in 1..n : LowerChar(t[i + j]) = LowerChar(synonym[j])
               /\ plural = 1 => LowerChar(t[last]) = "s"
               /\ i = 0 \/ ~IsWordChar(t[i])
               /\ last = Len(t) \/ ~IsWordChar(t[last + 1])

\* The tags by the rule of the keyword matcher: in the order of the groups,
\* the first synonym of every group of which a synonym occurs as a whole word.
RECURSIVE ClaimedTags(_, _)
ClaimedTags(t, groups) ==
    IF groups = << >>
    THEN << >>
    ELSE LET synonyms == SplitComma(Head(groups))
             rest == ClaimedTags(t, Tail(groups))
         IN  IF \E k \in 1..Len(synonyms) :
                    OccursAsWholeWord(Strip(synonyms[k]), t)
             THEN << synonyms[1] >> \o rest
             ELSE rest

\* C10: exact_match returns, in group order, the first synonym of exactly
\* the groups of which a synonym occurs in the text as a whole word.
C10_ExactMatchWholeWords ==
    pc = "matched" => matches = ClaimedTags(text, keyword_list)

=============================================================================
